---- MODULE Spec2Model ----
(***************************************************************************)
(* A model of jsgenerator: generate_examples (src/jsgenerator/generate.py) *)
(* and the helpers it drives (src/jsgenerator/utils.py): run_shell,        *)
(* create_dir, parse_examples and filter_examples.                         *)
(*                                                                         *)
(* A text is a sequence of lexical tokens (words and whitespace), a        *)
(* directory is a function from file names to texts, and a document (the   *)
(* readme, a model response) is a sequence of fenced blocks.  The model    *)
(* response, the exit status and output of every subprocess and what a     *)
(* candidate does to its working directory are chosen by the environment.  *)
(* The output of a subprocess is a sequence of tokens too; the token "\\xff" *)
(* is a byte that is not valid UTF-8.                                      *)
(***************************************************************************)
EXTENDS Integers, Sequences, FiniteSets, TLC

VARIABLES
    pc,               \* position in generate_examples / filter_examples
    err,              \* the exception that ended the run, "none" when none
    extract, generate, fix, only_var,   \* arguments of generate_examples
    readme, main,     \* generate.py:33-43 (an option: [some, val])
    side_files,       \* the README/main copies written by generate.py:47-55
    template,         \* directory work_path/playground_template
    playground,       \* directory work_path/playground
    base,             \* directory work_path/examples/<package>, keyed by i of example_<i>.js
    examples,         \* generate.py:75, rebound at :103 and extended at :127
    failed_examples,  \* generate.py:103
    call,             \* which call of filter_examples is active: 0 none, 1 line 103, 2 line 127
    cands,            \* filter_examples: its argument `examples`
    idx,              \* filter_examples: position of the for loop (1-based)
    valid_examples,   \* utils.py:188
    invalid_examples, \* utils.py:189
    process,          \* run_shell: the Popen object of the last subprocess
    save_i,           \* generate.py:129, the position of the writing loop (1-based)
    prompts,          \* observation: the requests sent to the model, <<generation, repair>> counts
    installs,         \* observation: number of times the install command was started
    trace,            \* observation: one record per filter_examples call: its
                      \* argument, for every candidate run so far the exit
                      \* status and the raw output behind its ShellError
                      \* (empty when none was raised), and how often it reset
                      \* the playground, wrote index.js and called Popen
    undeletable,      \* the environment: the entries <<directory, name>> that
                      \* shutil.rmtree cannot remove
    missing,          \* the environment: the directories that do not exist
    superuser,        \* the environment: whether the program and its candidates
                      \* run as root (with CAP_DAC_OVERRIDE), for whom the
                      \* permission bits of a directory do not stop a removal
    oracle,           \* the environment: what decides a candidate's outcome
    sample,           \* a text given to both fence patterns
    parsed            \* what the two patterns found in sample: <<readme's, parse_examples'>>

vars == <<pc, err, extract, generate, fix, only_var, readme, main, side_files,
          template, playground, base, examples, failed_examples, call, cands,
          idx, valid_examples, invalid_examples, process, save_i, prompts,
          installs, trace, undeletable, missing, oracle, superuser, sample, parsed>>

----------------------------------------------------------------------------
(* Bounds of the model *)

\* the largest number of fenced blocks in a response to the generation request
MaxBlocks == 2
\* the largest number of fenced blocks in a response to the repair request
MaxFixBlocks == 1

----------------------------------------------------------------------------
(* Texts *)

\* the characters str.strip() removes, those for which str.isspace() holds:
\* space, \t, \n, \r, \x0b, \x0c, \x1c to \x1f, \x85, \xa0 and the other
\* Unicode spaces
Whitespace ==
    {" ", "\t", "\n", "\r", "\f", "\\x0b", "\\x1c", "\\x1d", "\\x1e",
     "\\x1f", "\\x85", "\\xa0", "\\u1680", "\\u2000", "\\u2001", "\\u2002",
     "\\u2003", "\\u2004", "\\u2005", "\\u2006", "\\u2007", "\\u2008",
     "\\u2009", "\\u200a", "\\u2028", "\\u2029", "\\u202f", "\\u205f",
     "\\u3000"}

RECURSIVE lstrip(_)
lstrip(s) ==
    IF s # <<>> /\ Head(s) \in Whitespace THEN lstrip(Tail(s)) ELSE s

RECURSIVE rstrip(_)
rstrip(s) ==
    IF s # <<>> /\ s[Len(s)] \in Whitespace
    THEN rstrip(SubSeq(s, 1, Len(s) - 1))
    ELSE s

\* str.strip()
strip(s) == rstrip(lstrip(s))

\* a byte that does not decode as UTF-8
BadByte == "\\xff"

\* Popen(text=True): whether the bytes written by the process decode
decodable(raw) == \A k \in DOMAIN raw : raw[k] # BadByte

RECURSIVE universal_newlines(_)
\* Popen(text=True): the output is read with universal newlines, every \r\n
\* and every other \r becomes \n
universal_newlines(raw) ==
    IF raw = <<>> THEN <<>>
    ELSE IF Head(raw) = "\r"
         THEN <<"\n">> \o universal_newlines(IF Len(raw) >= 2 /\ raw[2] = "\n"
                                             THEN Tail(Tail(raw)) ELSE Tail(raw))
         ELSE <<Head(raw)>> \o universal_newlines(Tail(raw))

None == [some |-> FALSE, val |-> <<>>]
Some(v) == [some |-> TRUE, val |-> v]

----------------------------------------------------------------------------
(* Documents and fenced code blocks *)

\* the bodies of the fenced blocks of the sample documents, as written
BodyOk == <<"ok", "\n">>
BodyConst == <<" ", "const", " ", "x", "\n", "let", " ", "y", "\n", "\n">>
BodyShell == <<"npm", " ", "install", "\n">>

Block(tag, body) == [tag |-> tag, body |-> body]

\* the blocks a model response is made of
ResponseBlocks ==
    { Block("js", BodyOk), Block("js", BodyConst), Block("javascript", BodyOk) }

\* the blocks a response to the repair request is made of
FixBlocks == { Block("js", BodyOk), Block("javascript", BodyOk) }

\* the blocks of the package's readme
ReadmeDoc == << Block("bash", BodyShell), Block("js", BodyOk) >>

MainText == <<"module", " ", "exports">>

SeqsUpTo(S, n) == UNION { [1..k -> S] : k \in 0..n }

\* the tags the pattern ```js?\n of parse_examples accepts
ParseTags == {"j", "js"}
\* the tags the pattern ```(?:js|javascript)\n of generate_examples accepts
ReadmeTags == {"js", "javascript"}

RECURSIVE find_blocks(_, _)
\* re.findall(pattern, text, flags=re.DOTALL) followed by strip of each match
find_blocks(doc, tags) ==
    IF doc = <<>> THEN <<>>
    ELSE (IF Head(doc).tag \in tags THEN <<strip(Head(doc).body)>> ELSE <<>>)
         \o find_blocks(Tail(doc), tags)

parse_examples(response) == find_blocks(response, ParseTags)

extract_examples(text) == find_blocks(text, ReadmeTags)

----------------------------------------------------------------------------
(* Directories *)

EmptyDir == [n \in {} |-> <<>>]

\* shutil.copytree(src, dst, dirs_exist_ok=True): the files of src over those of dst
copytree(src, dst) ==
    [n \in (DOMAIN dst) \cup (DOMAIN src) |->
        IF n \in DOMAIN src THEN src[n] ELSE dst[n]]

\* shutil.rmtree(dir, ignore_errors=True): what cannot be removed stays, and
\* nothing is raised; stuck holds the names of the entries that cannot
rmtree(dir, stuck) == [n \in (DOMAIN dir) \cap stuck |-> dir[n]]

\* the names of the entries of the directory called d that cannot be removed
Stuck(d, und) == { e[2] : e \in { x \in und : x[1] = d } }

\* variant: the existing directory is never removed
create_dir_keeping(dir, src, remove, stuck) ==
    IF src = {} THEN dir ELSE copytree(CHOOSE d \in src : TRUE, dir)

\* create_dir(dir_path, src_path, remove); src is {} for None, {d} for a
\* directory d that exists
create_dir(dir, src, remove, stuck) ==
    LET cleared == IF remove THEN rmtree(dir, stuck) ELSE dir
    IN  IF src = {} THEN cleared
        ELSE copytree(CHOOSE d \in src : TRUE, cleared)

\* utils.py:161: shutil.copytree raises FileNotFoundError, an OSError, when
\* the source directory does not exist
copytree_raises(src_missing) == src_missing

\* Path.write_text
write_text(dir, name, text) ==
    [n \in (DOMAIN dir) \cup {name} |-> IF n = name THEN text ELSE dir[n]]

unlink(dir, name) == [n \in (DOMAIN dir) \ {name} |-> dir[n]]

\* what npm install leaves in the template directory when it succeeds
InstalledTemplate ==
    [n \in {"package.json", "node_modules"} |->
        IF n = "package.json" THEN <<"deps">> ELSE <<"pkg">>]

\* what a failed install may leave behind
PartialTemplate == [n \in {"package.json"} |-> <<"deps">>]

\* the directories as an earlier run may have left them
StalePlayground ==
    [n \in {"index.js", "tmp.txt"} |->
        IF n = "index.js" THEN <<"old">> ELSE <<"junk">>]
StaleTemplate ==
    [n \in {"node_modules", "old.lock"} |->
        IF n = "node_modules" THEN <<"oldpkg">> ELSE <<"lock">>]
StaleBase == [n \in {0, 3} |-> <<"old">>]

\* the examples directory of the earlier run is a symbolic link to a directory:
\* rmtree refuses it, so none of its files can be removed (considered for the
\* runs that make no request to the model)
LinkedBase == { <<"base", n>> : n \in DOMAIN StaleBase }

----------------------------------------------------------------------------
(* Subprocesses *)

\* a Popen object: the command, whether it runs, its exit status, its raw
\* combined output, and (observation) what it did to its working directory
Popen(cmd) ==
    [cmd |-> cmd, state |-> "running", returncode |-> 0, raw |-> <<>>,
     effect |-> "nothing"]

Exited(p, o, e) ==
    [p EXCEPT !.state = "exited", !.returncode = o.returncode, !.raw = o.raw,
              !.effect = e]

NoProcess == [Popen("") EXCEPT !.state = "none"]

\* exit status and raw combined stdout/stderr of a candidate run by `node index.js`:
\* prints and exits 0, prints nothing and exits 0, throws (its transcript
\* written with tabs and \r\n), bash not finding node, and writing a byte that
\* is not UTF-8 before exiting 0 or 1
NodeOutcomes ==
    { [returncode |-> 0,   raw |-> <<"2", "\n">>],
      [returncode |-> 0,   raw |-> <<>>],
      [returncode |-> 1,   raw |-> <<"\t", "Error:", "\r", "\n", "boom", "\r", "\n", "\n">>],
      [returncode |-> 127, raw |-> <<"bash:", " ", "node:", " ", "command", " ", "not", " ",
                                   "found", "\n">>],
      [returncode |-> 0,   raw |-> <<BadByte, "\n">>],
      [returncode |-> 1,   raw |-> <<BadByte, "\n">>] }

\* exit status and raw output of `npm install <package>`
InstallOutcomes ==
    { [returncode |-> 0, raw |-> <<"added", "\n">>],
      [returncode |-> 1, raw |-> <<"npm", " ", "ERR!", "\n">>],
      [returncode |-> 0, raw |-> <<BadByte, "\n">>],
      [returncode |-> 1, raw |-> <<BadByte, "\n">>] }

\* what a running candidate may do to the files it can reach: nothing; or
\* create a file and a read-only subdirectory, rewrite its own entry point and
\* delete an installed file, all in its working directory; or remove the
\* template directory next to it
Effects == {"nothing", "scribble", "wreck"}

apply_effect(dir, e) ==
    IF e = "scribble"
    THEN unlink(write_text(write_text(write_text(dir, "tmp.txt", <<"junk">>),
                                      "keep", <<"f">>),
                           "index.js", <<"patched">>),
                "package.json")
    ELSE dir

\* the entries a candidate's effect leaves that rmtree cannot remove: the
\* read-only subdirectory, which only root can empty
locks_of(e, root) ==
    IF e = "scribble" /\ ~root THEN { <<"playground", "keep">> } ELSE {}

\* variant: the captured lines joined but not stripped
run_shell_output_unstripped(raw) == universal_newlines(raw)

\* run_shell, utils.py:137-142: the lines read as text, joined and stripped
run_shell_output(raw) == strip(universal_newlines(raw))

\* variant: the exit status is never checked
raises_ShellError_unchecked(check, returncode) == FALSE

\* run_shell, utils.py:144: whether ShellError is raised
raises_ShellError(check, returncode) == check /\ returncode # 0

\* run_shell, utils.py:137-146: what it raises once the process has run:
\* UnicodeDecodeError while reading output that does not decode, before the
\* exit status is looked at; else ShellError on a non-zero status; else nothing
run_shell_raises(check, o) ==
    IF ~decodable(o.raw) THEN "UnicodeDecodeError"
    ELSE IF raises_ShellError(check, o.returncode) THEN "ShellError"
    ELSE "none"

\* The environment's rule for the outcome of a candidate.  When it is not
\* fixed any outcome may follow any start; when it is fixed the outcome is a
\* function of what the process finds: the text of index.js and whether the
\* other files of its working directory are the template's.
AnyOutcome == [fixed |-> FALSE, of |-> <<>>]

Sees(dir, tpl) ==
    << dir["index.js"],
       /\ DOMAIN dir \ {"index.js"} = DOMAIN tpl \ {"index.js"}
       /\ \A n \in DOMAIN tpl \ {"index.js"} : dir[n] = tpl[n] >>

\* the runs of a candidate considered when nothing is fixed, each an outcome
\* and an effect: every outcome without effect, and a candidate that prints
\* or throws after writing in its working directory, or prints after removing
\* the template
CandidateRuns ==
    (NodeOutcomes \X {"nothing"})
    \cup ({ o \in NodeOutcomes : o.raw # <<>> /\ decodable(o.raw) /\ o.returncode \in {0, 1} }
          \X {"scribble"})
    \cup ({ o \in NodeOutcomes : o.raw # <<>> /\ decodable(o.raw) /\ o.returncode = 0 }
          \X {"wreck"})

\* the runs the environment allows a candidate started in dir; under a fixed
\* rule the candidates leave the template alone
runs_of(orc, dir, tpl) ==
    IF orc.fixed THEN { orc.of[Sees(dir, tpl)] } \X (Effects \ {"wreck"})
    ELSE CandidateRuns

----------------------------------------------------------------------------
(* The initial state: generate_examples has been called *)

Init ==
    /\ pc = "start"
    /\ err = "none"
    /\ extract \in BOOLEAN
    /\ generate \in BOOLEAN
    /\ fix \in BOOLEAN
    /\ only_var \in BOOLEAN
    /\ readme = None
    /\ main = None
    /\ side_files = {}
    /\ template = StaleTemplate
    /\ playground = StalePlayground
    /\ base = StaleBase
    /\ examples = <<>>
    /\ failed_examples = <<>>
    /\ call = 0
    /\ cands = <<>>
    /\ idx = 1
    /\ valid_examples = <<>>
    /\ invalid_examples = <<>>
    /\ process = NoProcess
    /\ save_i = 1
    /\ prompts = <<0, 0>>
    /\ installs = 0
    /\ trace = <<>>
    /\ undeletable \in (IF ~generate /\ ~fix THEN { {}, LinkedBase } ELSE { {} })
    /\ missing = {}
    /\ oracle = AnyOutcome
    /\ superuser \in BOOLEAN
    /\ sample = <<>>
    /\ parsed = <<>>

----------------------------------------------------------------------------
(* generate_examples *)

\* variant: only const is replaced
to_var_const_only(text) ==
    [k \in 1..Len(text) |-> IF text[k] = "const" THEN "var" ELSE text[k]]

\* re.sub(r'\bconst\b', 'var', ...) then re.sub(r'\blet\b', 'var', ...)
to_var(text) ==
    [k \in 1..Len(text) |-> IF text[k] \in {"const", "let"} THEN "var" ELSE text[k]]

Abort(e) ==
    /\ pc' = "error"
    /\ err' = e

\* entry of filter_examples(c, template_path, playground_path), utils.py:188-189
EnterFilter(n, c) ==
    /\ call' = n
    /\ cands' = c
    /\ idx' = 1
    /\ valid_examples' = <<>>
    /\ invalid_examples' = <<>>
    /\ trace' = Append(trace, [cands |-> c, rc |-> <<>>, errout |-> <<>>,
                               resets |-> 0, writes |-> 0, popens |-> 0])
    /\ pc' = "loop"

\* variant: both the readme and the main file are required
sources_ok_both(r, m) == r.some /\ m.some

\* generate.py:45: assert readme is not None or main is not None
sources_ok(r, m) == r.some \/ m.some

\* generate.py:28-55: the readme and the main file are fetched, either may be
\* missing; the assertion; the copies under work_path
Acquire ==
    /\ UNCHANGED <<undeletable, missing, oracle, superuser, sample, parsed>>
    /\ pc = "start"
    /\ \E r \in {None, Some(ReadmeDoc)}, m \in {None, Some(MainText)} :
        /\ readme' = r
        /\ main' = m
        /\ IF sources_ok(r, m)
           THEN /\ side_files' = (IF r.some THEN {"README"} ELSE {})
                                 \cup (IF m.some THEN {"main"} ELSE {})
                /\ pc' = "provision"
                /\ err' = err
           ELSE /\ Abort("AssertionError")
                /\ side_files' = side_files
    /\ UNCHANGED <<extract, generate, fix, only_var, template, playground, base,
                   examples, failed_examples, call, cands, idx, valid_examples,
                   invalid_examples, process, save_i, prompts, installs, trace>>

\* generate.py:57-60 up to the start of the install command: the template is
\* cleared and re-created, then run_shell opens the subprocess (utils.py:128)
Provision ==
    /\ UNCHANGED <<undeletable, oracle, superuser, sample, parsed>>
    /\ pc = "provision"
    /\ template' = create_dir(template, {}, TRUE, Stuck("template", undeletable))
    /\ missing' = missing \ {"template"}
    /\ \/ /\ process' = Popen("npm")
          /\ installs' = installs + 1
          /\ pc' = "installing"
          /\ err' = err
       \/ /\ Abort("OSError")
          /\ UNCHANGED <<process, installs>>
    /\ UNCHANGED <<extract, generate, fix, only_var, readme, main, side_files,
                   playground, base, examples, failed_examples, call, cands, idx,
                   valid_examples, invalid_examples, save_i, prompts, trace>>

\* the install command exits; run_shell (utils.py:137-146) raises
\* UnicodeDecodeError on output that does not decode and ShellError on a
\* non-zero status, and generate_examples catches neither
InstallExit ==
    /\ UNCHANGED <<undeletable, missing, oracle, superuser, sample, parsed>>
    /\ pc = "installing"
    /\ \E o \in InstallOutcomes :
        LET exc == run_shell_raises(TRUE, o)
        IN  /\ process' = Exited(process, o, "install")
            /\ IF o.returncode = 0
               THEN template' = copytree(InstalledTemplate, template)
               ELSE \E left \in {EmptyDir, PartialTemplate} :
                        template' = copytree(left, template)
            /\ IF exc # "none"
               THEN Abort(exc)
               ELSE /\ pc' = "prepare"
                    /\ err' = err
    /\ UNCHANGED <<extract, generate, fix, only_var, readme, main, side_files,
                   playground, base, examples, failed_examples, call, cands, idx,
                   valid_examples, invalid_examples, save_i, prompts, installs, trace>>

\* generate.py:62-80: the examples directory is cleared, the model is set up,
\* and the readme's code blocks are extracted
Prepare ==
    /\ UNCHANGED <<undeletable, oracle, superuser, sample, parsed>>
    /\ pc = "prepare"
    /\ base' = create_dir(base, {}, TRUE, Stuck("base", undeletable))
    /\ missing' = missing \ {"base"}
    /\ examples' = IF extract /\ readme.some
                   THEN <<>> \o extract_examples(readme.val)
                   ELSE <<>>
    /\ pc' = "generate"
    /\ UNCHANGED <<err, extract, generate, fix, only_var, readme, main, side_files,
                   template, playground, failed_examples, call, cands, idx,
                   valid_examples, invalid_examples, process, save_i, prompts,
                   installs, trace>>

\* generate.py:82-103: one request to the model when generate is set, its
\* response parsed and appended; then filter_examples is called
Generate ==
    /\ UNCHANGED <<undeletable, missing, oracle, superuser, sample, parsed>>
    /\ pc = "generate"
    /\ \E response \in (IF generate THEN SeqsUpTo(ResponseBlocks, MaxBlocks) ELSE {<<>>}) :
        LET all == IF generate THEN examples \o parse_examples(response) ELSE examples
        IN  /\ examples' = all
            /\ EnterFilter(1, all)
    /\ prompts' = IF generate THEN <<prompts[1] + 1, prompts[2]>> ELSE prompts
    /\ UNCHANGED <<err, extract, generate, fix, only_var, readme, main, side_files,
                   template, playground, base, failed_examples, process, save_i,
                   installs>>

----------------------------------------------------------------------------
(* filter_examples *)

\* the record of the active call with one field replaced
Noted(field, v) == [trace EXCEPT ![Len(trace)] = [@ EXCEPT ![field] = v]]

\* variant: the candidate is kept whether or not ShellError was raised
valid_after_always(valid, example, raised) == Append(valid, example)

\* utils.py:194-196: the candidate is kept when run_shell returned
valid_after(valid, example, raised) ==
    IF raised THEN valid ELSE Append(valid, example)

\* variant: the newest failure is put first
invalid_after_front(invalid, example, raised, output) ==
    IF raised THEN <<<<example, output>>>> \o invalid ELSE invalid

\* utils.py:197-198: the candidate and the error's output when ShellError was raised
invalid_after(invalid, example, raised, output) ==
    IF raised THEN Append(invalid, <<example, output>>) ELSE invalid

\* variant: the loop body runs once before the test
more_candidates_do_while(i, c) == i = 1 \/ i <= Len(c)

\* utils.py:190: whether the for loop has a candidate at position i
more_candidates(i, c) == i <= Len(c)

\* variant: every call of filter_examples is followed by the repair test
after_filter_retry(n) == "fix"

\* what follows the n-th call of filter_examples in generate_examples: the
\* repair test of generate.py:104 after line 103, the writing loop of
\* generate.py:129 after line 127
after_filter(n) == IF n = 1 THEN "fix" ELSE "save"

\* variant: the valid examples of the second call replace the list
extend_replacing(list, more) == more

\* generate.py:127: examples.extend(<the valid examples of the second call>)
extend(list, more) == list \o more

\* variant: the two paths of create_dir are swapped
reset_swapped(tpl, play, stuck) ==
    [template |-> create_dir(tpl, {play}, TRUE, {}), playground |-> play]

\* utils.py:191: create_dir(project_path, template_path), the two directories after it
reset(tpl, play, stuck) ==
    [template |-> tpl, playground |-> create_dir(play, {tpl}, TRUE, stuck)]

\* variant: run_shell returns without waiting for the process
after_popen_no_wait(p) == "loop"

\* utils.py:137-143: run_shell stays in the with block of the Popen object p,
\* reading its output to the end, until it has exited
after_popen(p) == "wait"

\* variant: the loop stays on the same candidate
next_index_stuck(i) == i

\* utils.py:190: the for loop moves to the next candidate
next_index(i) == i + 1

\* variant: ShellError is not caught
propagates_uncaught(exc) == exc # "none"

\* utils.py:194-197: whether what run_shell raised leaves filter_examples:
\* the except clause catches ShellError and nothing else
propagates(exc) == exc \notin {"none", "ShellError"}

\* utils.py:190-191: the next candidate is taken and create_dir removes what
\* it can of the playground and copies the template over the rest; when the
\* template is gone copytree raises and nobody catches it
Reset ==
    /\ UNCHANGED <<undeletable, oracle, superuser, sample, parsed>>
    /\ pc = "loop"
    /\ more_candidates(idx, cands)
    /\ LET stuck == Stuck("playground", undeletable)
       IN  IF copytree_raises("template" \in missing)
           THEN /\ playground' = rmtree(playground, stuck)
                /\ template' = template
                /\ missing' = IF playground' = EmptyDir
                              THEN missing \cup {"playground"} ELSE missing
                /\ Abort("OSError")
           ELSE /\ playground' = reset(template, playground, stuck).playground
                /\ template' = reset(template, playground, stuck).template
                /\ missing' = missing \ {"playground"}
                /\ pc' = "write"
                /\ err' = err
    /\ trace' = Noted("resets", trace[Len(trace)].resets + 1)
    /\ UNCHANGED <<extract, generate, fix, only_var, readme, main, side_files,
                   base, examples, failed_examples, call, cands, idx,
                   valid_examples, invalid_examples, process, save_i, prompts,
                   installs>>

\* utils.py:192-193: the candidate becomes index.js
WriteEntry ==
    /\ UNCHANGED <<undeletable, missing, oracle, superuser, sample, parsed>>
    /\ pc = "write"
    /\ playground' = write_text(playground, "index.js", cands[idx])
    /\ trace' = Noted("writes", trace[Len(trace)].writes + 1)
    /\ pc' = "popen"
    /\ UNCHANGED <<err, extract, generate, fix, only_var, readme, main, side_files,
                   template, base, examples, failed_examples, call, cands, idx,
                   valid_examples, invalid_examples, process, save_i, prompts,
                   installs>>

\* utils.py:195 and 128: run_shell opens `node index.js` under /bin/bash; Popen
\* raising (no bash, no working directory) is an OSError nobody catches
StartNode ==
    /\ UNCHANGED <<undeletable, missing, oracle, superuser, sample, parsed>>
    /\ pc = "popen"
    /\ \/ /\ process' = Popen("node")
          /\ trace' = Noted("popens", trace[Len(trace)].popens + 1)
          /\ pc' = after_popen(process')
          /\ err' = err
       \/ /\ Abort("OSError")
          /\ UNCHANGED <<process, trace>>
    /\ UNCHANGED <<extract, generate, fix, only_var, readme, main, side_files,
                   template, playground, base, examples, failed_examples, call,
                   cands, idx, valid_examples, invalid_examples, save_i, prompts,
                   installs>>

\* the candidate runs and exits; run_shell (utils.py:137-146) returns or
\* raises; filter_examples (utils.py:194-198) files the candidate, or is left
\* by what it does not catch
NodeExit ==
    /\ UNCHANGED <<oracle, superuser, sample, parsed>>
    /\ pc = "wait"
    /\ \E run \in runs_of(oracle, playground, template) :
        LET o == run[1]
            e == run[2]
            exc == run_shell_raises(TRUE, o)
            raised == exc = "ShellError"
        IN  /\ playground' = apply_effect(playground, e)
            /\ undeletable' = undeletable \cup locks_of(e, superuser)
            /\ template' = IF e = "wreck" THEN EmptyDir ELSE template
            /\ missing' = IF e = "wreck" THEN missing \cup {"template"} ELSE missing
            /\ process' = Exited(process, o, e)
            /\ trace' = [trace EXCEPT ![Len(trace)] =
                            [@ EXCEPT !.rc = Append(@, o.returncode),
                                      !.errout = Append(@, IF raised THEN o.raw
                                                                      ELSE <<>>)]]
            /\ IF propagates(exc)
               THEN /\ Abort(exc)
                    /\ UNCHANGED <<valid_examples, invalid_examples, idx>>
               ELSE /\ valid_examples' = valid_after(valid_examples, cands[idx], raised)
                    /\ invalid_examples' = invalid_after(invalid_examples, cands[idx],
                                                         raised, run_shell_output(o.raw))
                    /\ idx' = next_index(idx)
                    /\ pc' = "loop"
                    /\ err' = err
    /\ UNCHANGED <<extract, generate, fix, only_var, readme, main, side_files,
                   base, examples, failed_examples, call, cands, save_i,
                   prompts, installs>>

\* utils.py:199 and the caller's use of the result: generate.py:103 rebinds
\* examples and failed_examples, generate.py:127 extends examples by the valid ones
FilterReturn ==
    /\ UNCHANGED <<undeletable, missing, oracle, superuser, sample, parsed>>
    /\ pc = "loop"
    /\ ~more_candidates(idx, cands)
    /\ IF call = 1
       THEN /\ examples' = valid_examples
            /\ failed_examples' = invalid_examples
       ELSE /\ examples' = extend(examples, valid_examples)
            /\ failed_examples' = failed_examples
    /\ pc' = after_filter(call)
    /\ UNCHANGED <<err, extract, generate, fix, only_var, readme, main, side_files,
                   template, playground, base, call, cands, idx, valid_examples,
                   invalid_examples, process, save_i, prompts, installs, trace>>

----------------------------------------------------------------------------
(* generate_examples, continued *)

\* variant: the repair request is made whatever failed and whatever fix says
wants_fix_always(fix_flag, failed) == TRUE

\* generate.py:104: whether the repair request is made
wants_fix(fix_flag, failed) == fix_flag /\ Len(failed) > 0

\* generate.py:104-127: one repair request when something failed and fix is
\* set; its response is parsed and filter_examples is called on it
Fix ==
    /\ UNCHANGED <<undeletable, missing, oracle, superuser, sample, parsed>>
    /\ pc = "fix"
    /\ IF wants_fix(fix, failed_examples)
       THEN /\ \E response \in SeqsUpTo(FixBlocks, MaxFixBlocks) :
                 EnterFilter(2, parse_examples(response))
            /\ prompts' = <<prompts[1], prompts[2] + 1>>
       ELSE /\ pc' = "save"
            /\ UNCHANGED <<call, cands, idx, valid_examples, invalid_examples,
                           trace, prompts>>
    /\ UNCHANGED <<err, extract, generate, fix, only_var, readme, main, side_files,
                   template, playground, base, examples, failed_examples, process,
                   save_i, installs>>

\* variant: the files are numbered from one
file_index_from_one(i) == i

\* generate.py:129 and 133: enumerate numbers the examples from zero
file_index(i) == i - 1

\* generate.py:129-134: example save_i - 1 is written to example_<save_i - 1>.js
Save ==
    /\ UNCHANGED <<undeletable, missing, oracle, superuser, sample, parsed>>
    /\ pc = "save"
    /\ save_i <= Len(examples)
    /\ base' = write_text(base, file_index(save_i),
                          IF only_var THEN to_var(examples[save_i]) ELSE examples[save_i])
    /\ save_i' = save_i + 1
    /\ UNCHANGED <<pc, err, extract, generate, fix, only_var, readme, main,
                   side_files, template, playground, examples, failed_examples,
                   call, cands, idx, valid_examples, invalid_examples, process,
                   prompts, installs, trace>>

\* generate_examples returns
Return ==
    /\ UNCHANGED <<undeletable, missing, oracle, superuser, sample, parsed>>
    /\ pc = "save"
    /\ save_i > Len(examples)
    /\ pc' = "done"
    /\ UNCHANGED <<err, extract, generate, fix, only_var, readme, main, side_files,
                   template, playground, base, examples, failed_examples, call,
                   cands, idx, valid_examples, invalid_examples, process, save_i,
                   prompts, installs, trace>>

Next ==
    \/ Acquire
    \/ Provision
    \/ InstallExit
    \/ Prepare
    \/ Generate
    \/ Reset
    \/ WriteEntry
    \/ StartNode
    \/ NodeExit
    \/ FilterReturn
    \/ Fix
    \/ Save
    \/ Return

Spec == Init /\ [][Next]_vars

----------------------------------------------------------------------------
(* Properties of filter_examples *)

\* the record of the most recent call of filter_examples
Cur == trace[Len(trace)]

\* filter_examples has returned: cands, valid_examples and invalid_examples
\* are the argument and the result of the most recent call
Returned == call > 0 /\ pc \in {"fix", "save", "done"}

Range(s) == { s[k] : k \in DOMAIN s }

Count(t, s) == Cardinality({ k \in DOMAIN s : s[k] = t })

Texts(pairs) == [k \in DOMAIN pairs |-> pairs[k][1]]

RECURSIVE Accepted(_, _)
\* the candidates of c whose run exited with status zero, in the order of c
Accepted(c, rc) ==
    IF rc = <<>> THEN <<>>
    ELSE (IF Head(rc) = 0 THEN <<Head(c)>> ELSE <<>>) \o Accepted(Tail(c), Tail(rc))

RECURSIVE Rejected(_, _, _)
\* the other candidates of c, each with the output of its own run, read as
\* text and trimmed
Rejected(c, rc, raw) ==
    IF rc = <<>> THEN <<>>
    ELSE (IF Head(rc) # 0
          THEN << <<Head(c), rstrip(lstrip(universal_newlines(Head(raw))))>> >>
          ELSE <<>>)
         \o Rejected(Tail(c), Tail(rc), Tail(raw))

\* C1: when filter_examples returns, every candidate has been run once, the
\* two results together are as long as the argument, and every text occurs in
\* the two results together exactly as often as it occurs in the argument
C1_PartitionTotality ==
    Returned =>
        /\ Len(Cur.rc) = Len(cands)
        /\ Len(valid_examples) + Len(invalid_examples) = Len(cands)
        /\ \A t \in Range(cands) \cup Range(valid_examples)
                      \cup Range(Texts(invalid_examples)) :
              Count(t, cands) = Count(t, valid_examples)
                                + Count(t, Texts(invalid_examples))

\* a returned call whose argument holds the same text twice, accepted once and
\* rejected once
C1_Witness ==
    /\ Returned
    /\ \E i, j \in DOMAIN cands :
        /\ i # j
        /\ cands[i] = cands[j]
        /\ Cur.rc[i] = 0
        /\ Cur.rc[j] # 0

\* C2: when filter_examples returns, the accepted list is the candidates that
\* exited with status zero in input order, and the rejected list is the
\* remaining candidates in input order, each with the output of its own run
C2_OrderPreserved ==
    Returned =>
        /\ valid_examples = Accepted(cands, Cur.rc)
        /\ invalid_examples = Rejected(cands, Cur.rc, Cur.errout)

\* a returned call that rejected two different candidates around an accepted one
C2_Witness ==
    /\ Returned
    /\ Len(cands) = 3
    /\ Cur.rc[1] # 0 /\ Cur.rc[2] = 0 /\ Cur.rc[3] # 0
    /\ invalid_examples[1] # invalid_examples[2]

\* the number of zero and of non-zero exit statuses in rc
Zeros(rc) == Cardinality({ k \in DOMAIN rc : rc[k] = 0 })
NonZeros(rc) == Cardinality({ k \in DOMAIN rc : rc[k] # 0 })

\* C3: once a candidate's subprocess has exited, the candidate is the newest
\* accepted example if and only if the exit status is zero, whatever was
\* printed, and otherwise it is the newest rejected one, with the captured
\* output less its leading and trailing whitespace as diagnostic
C3_ClassifiedByExitStatus ==
    (call > 0 /\ pc \in {"loop", "error"} /\ Len(Cur.rc) >= 1) =>
        LET k == Len(Cur.rc)
        IN  /\ process.cmd = "node" /\ process.state = "exited"
            /\ Len(valid_examples) = Zeros(Cur.rc)
            /\ Len(invalid_examples) = NonZeros(Cur.rc)
            /\ process.returncode = 0 =>
                  /\ valid_examples # <<>>
                  /\ valid_examples[Len(valid_examples)] = cands[k]
            /\ process.returncode # 0 =>
                  /\ invalid_examples # <<>>
                  /\ invalid_examples[Len(invalid_examples)]
                       = <<cands[k], rstrip(lstrip(process.raw))>>

\* C4: when a candidate's subprocess is started, the playground holds the
\* template's files and index.js with this candidate's text, and nothing else
C4_Isolation ==
    (pc \in {"popen", "wait"}) =>
        /\ DOMAIN playground = DOMAIN template \cup {"index.js"}
        /\ playground["index.js"] = cands[idx]
        /\ \A n \in DOMAIN template \ {"index.js"} : playground[n] = template[n]

\* C5: a call of filter_examples with no candidates returns two empty lists
\* without resetting the playground, starting a subprocess or raising
C5_EmptyInput ==
    (call > 0 /\ cands = <<>>) =>
        /\ pc \in {"loop", "fix", "save", "done"}
        /\ err = "none"
        /\ valid_examples = <<>>
        /\ invalid_examples = <<>>
        /\ Cur.resets = 0
        /\ Cur.popens = 0
        /\ call = 1 => playground = StalePlayground

\* the first call has returned from an empty argument
C5_Witness ==
    /\ Returned
    /\ call = 1
    /\ cands = <<>>
    /\ pc = "done"

----------------------------------------------------------------------------
(* Properties of generate_examples *)

\* the writing loop has been reached: the list of examples is final
Final == pc \in {"save", "done"}

\* the candidates the first call of filter_examples accepted
FirstAccepted == Accepted(trace[1].cands, trace[1].rc)

\* the candidates the second call accepted, none when there was no second call
RepairAccepted ==
    IF Len(trace) >= 2 THEN Accepted(trace[2].cands, trace[2].rc) ELSE <<>>

\* C6: when the first pass rejected nothing, or fix is false, no repair request
\* is made, filter_examples is called only once, and the final list is the
\* list the first pass accepted
C6_RepairNoOp ==
    (Final /\ (~fix \/ NonZeros(trace[1].rc) = 0)) =>
        /\ prompts[2] = 0
        /\ Len(trace) = 1
        /\ call = 1
        /\ examples = FirstAccepted
        /\ examples = valid_examples

\* a finished run with fix set whose first pass accepted all of two or more
\* candidates
C6_Witness ==
    /\ pc = "done"
    /\ fix
    /\ Len(trace[1].cands) >= 2
    /\ NonZeros(trace[1].rc) = 0
    /\ failed_examples = <<>>

\* C7: a run makes at most one repair request and at most two calls of
\* filter_examples, the second only after the one repair request; what the
\* second call rejects leads to no further request and no further call
C7_SinglePassRepair ==
    /\ prompts[2] <= 1
    /\ Len(trace) <= 2
    /\ Len(trace) <= 1 + prompts[2]
    /\ (Len(trace) = 2 /\ NonZeros(trace[2].rc) > 0
          /\ Len(trace[2].rc) = Len(trace[2].cands))
         => (call = 2 /\ pc \in {"loop", "save", "done", "error"})

\* a finished run whose repair pass rejected a candidate again
C7_Witness ==
    /\ pc = "done"
    /\ prompts[2] = 1
    /\ Len(trace) = 2
    /\ NonZeros(trace[2].rc) > 0

\* C8: the final list is what the first pass accepted, in order, followed by
\* what the repair pass accepted, in order; the repair pass runs only its own
\* candidates, each at most once
C8_FinalComposition ==
    Final =>
        /\ examples = FirstAccepted \o RepairAccepted
        /\ Len(trace) = 2 =>
              /\ trace[2].popens = Len(trace[2].cands)
              /\ trace[1].popens = Len(trace[1].cands)
              /\ Len(examples) = Zeros(trace[1].rc) + Zeros(trace[2].rc)

\* a finished run that kept a first-pass example, dropped a failed one and
\* added a repaired one
C8_Witness ==
    /\ pc = "done"
    /\ Len(trace) = 2
    /\ FirstAccepted # <<>>
    /\ RepairAccepted # <<>>
    /\ Len(examples) = Len(FirstAccepted) + 1
    /\ examples[Len(examples)] = trace[2].cands[1]

\* C9: if node is not found when a candidate is started (bash exits with
\* status 127), the candidate is not recorded as rejected, the run ends with
\* an error and no later candidate of the batch is run
C9_InterpreterNotFoundIsFatal ==
    \A p \in DOMAIN trace : \A i \in DOMAIN trace[p].rc :
        trace[p].rc[i] = 127 =>
            /\ pc = "error"
            /\ Len(trace[p].rc) = i
            /\ Len(invalid_examples) = NonZeros(SubSeq(trace[p].rc, 1, i - 1))

\* the install command has exited with a non-zero status
InstallFailed ==
    process.cmd = "npm" /\ process.state = "exited" /\ process.returncode # 0

\* C10: when the install command exits non-zero the run ends at once with
\* what run_shell raised: the install was started once, no request was made to the
\* model, no candidate was run and the examples directory is as it was
C10_ProvisioningFailureAborts ==
    InstallFailed =>
        /\ pc = "error"
        /\ err \in {"ShellError", "UnicodeDecodeError"}
        /\ installs = 1
        /\ prompts = <<0, 0>>
        /\ trace = <<>>
        /\ call = 0
        /\ examples = <<>>
        /\ base = StaleBase
        /\ playground = StalePlayground

\* the run has ended on a failed install that left a partial template
C10_Witness ==
    /\ InstallFailed
    /\ pc = "error"
    /\ template = PartialTemplate

----------------------------------------------------------------------------
(* Failures, output and the template *)

\* some candidate of some call of filter_examples exited with a non-zero status
SomeCandidateFailed == \E p \in DOMAIN trace : NonZeros(trace[p].rc) > 0

\* C11: a candidate's non-zero exit never ends the run: no ShellError leaves
\* filter_examples, no run ends at the exit of a candidate whose status was
\* not zero, and the loop goes on to the next candidate
C11_CandidateFailuresAbsorbed ==
    /\ err = "ShellError" => (process.cmd = "npm" /\ trace = <<>>)
    /\ (call > 0 /\ pc = "error" /\ Len(Cur.rc) = idx) => Cur.rc[idx] = 0
    /\ (call > 0 /\ pc = "loop") => idx = Len(Cur.rc) + 1

\* a text with every const and let replaced by var
Rewritten(t) ==
    [k \in DOMAIN t |-> IF t[k] = "const" \/ t[k] = "let" THEN "var" ELSE t[k]]

\* C12: after a completed run with n final examples the examples directory
\* holds exactly example_0.js .. example_(n-1).js, and example_i.js is the
\* i-th final example (with const and let rewritten to var when only_var)
C12_OutputLayout ==
    pc = "done" =>
        /\ DOMAIN base = 0 .. (Len(examples) - 1)
        /\ \A i \in DOMAIN base :
              base[i] = IF only_var THEN Rewritten(examples[i + 1]) ELSE examples[i + 1]

\* C13: the install command is started at most once, and once it has
\* succeeded the template holds exactly what it installed, nothing of an
\* earlier run, through every reset, entry-point write and execution of both
\* passes
C13_TemplateProvisionedOnce ==
    /\ installs <= 1
    /\ pc \in {"prepare", "generate", "loop", "write", "popen", "wait", "fix",
               "save", "done"} =>
          /\ installs = 1
          /\ template = InstalledTemplate
    /\ call > 0 => template = InstalledTemplate

\* C15: in every call of filter_examples the steps of a candidate come in the
\* order reset, write, start, exit, and the next candidate's reset comes only
\* after the exit; a subprocess runs only while run_shell waits for it, and
\* while it runs nothing has reset or rewritten the playground for another
\* candidate
C15_StrictSerialization ==
    /\ process.state = "running" => pc \in {"installing", "wait"}
    /\ \A p \in DOMAIN trace :
          LET t == trace[p]
          IN  /\ Len(t.rc) <= t.popens
              /\ t.popens <= t.writes
              /\ t.writes <= t.resets
              /\ t.resets <= Len(t.rc) + 1
              /\ p < Len(trace) => t.resets = Len(t.rc)
    /\ call > 0 =>
          /\ pc = "loop" => (Cur.resets = idx - 1 /\ Len(Cur.rc) = idx - 1)
          /\ pc = "write" => (Cur.resets = idx /\ Cur.writes = idx - 1)
          /\ pc = "popen" => (Cur.writes = idx /\ Cur.popens = idx - 1)
          /\ pc = "wait" =>
                /\ process.cmd = "node" /\ process.state = "running"
                /\ Cur.resets = idx /\ Cur.writes = idx /\ Cur.popens = idx
                /\ Len(Cur.rc) = idx - 1

\* the third candidate of a call is running, after two that have exited
C15_Witness ==
    /\ pc = "wait"
    /\ process.state = "running"
    /\ idx = 3
    /\ Len(Cur.rc) = 2
    /\ Cur.resets = 3

\* C18: with the readme or the main file in hand the assertion passes and the
\* run goes on to provisioning; with neither, the run ends with
\* AssertionError before the template is touched, before any request to the
\* model, before any candidate is run and before any example file is written
C18_ReadmeOrMain ==
    pc # "start" =>
        IF readme.some \/ main.some
        THEN /\ err # "AssertionError"
             /\ side_files = (IF readme.some THEN {"README"} ELSE {})
                             \cup (IF main.some THEN {"main"} ELSE {})
        ELSE /\ pc = "error"
             /\ err = "AssertionError"
             /\ template = StaleTemplate
             /\ installs = 0
             /\ process = NoProcess
             /\ prompts = <<0, 0>>
             /\ trace = <<>>
             /\ base = StaleBase
             /\ side_files = {}

\* a run that had no readme but a main file has completed with examples
C18_Witness ==
    /\ pc = "done"
    /\ ~readme.some
    /\ main.some
    /\ examples # <<>>
    /\ template = InstalledTemplate

\* the texts that were run in this run and exited with status zero
ValidatedTexts ==
    UNION { { trace[p].cands[k] : k \in { j \in DOMAIN trace[p].rc : trace[p].rc[j] = 0 } }
            : p \in DOMAIN trace }

\* the example files this run has written so far
Written == { i \in DOMAIN base : i + 1 < save_i }

\* C19 as claimed: every example file written holds exactly a text that was
\* run in this run and exited with status zero
C19_OnlyValidatedPersisted ==
    /\ save_i > 1 => pc \in {"save", "done"}
    /\ \A i \in Written : base[i] \in ValidatedTexts

\* C19 as amended: every example file written holds a text that was run in
\* this run and exited with status zero, as it was when only_var is false and
\* with each const and let replaced by var when only_var is true
C19_ValidatedThenRewritten ==
    /\ save_i > 1 => pc \in {"save", "done"}
    /\ \A i \in Written :
          \E t \in ValidatedTexts :
              base[i] = IF only_var THEN Rewritten(t) ELSE t

\* a completed run with only_var whose file example_0.js differs from the
\* validated text it was made from, while a candidate that failed is in no file
C19_Witness ==
    /\ pc = "done"
    /\ only_var
    /\ examples # <<>>
    /\ 0 \in Written
    /\ base[0] # examples[1]
    /\ base[0] \notin ValidatedTexts
    /\ SomeCandidateFailed

----------------------------------------------------------------------------
(* Termination *)

\* every call the program makes returns: the install command, each candidate
\* and each request to the model, so a step that can be taken is taken
SpecFair == Init /\ [][Next]_vars /\ WF_vars(Next)

\* the number of candidate subprocesses started in the whole run
Executions ==
    (IF Len(trace) >= 1 THEN trace[1].popens ELSE 0)
    + (IF Len(trace) >= 2 THEN trace[2].popens ELSE 0)

\* C17: when every call returns, generate_examples ends (it returns or
\* raises); no candidate is ever started a second time, and when it returns
\* every candidate of the first pass and of the repair response has been run
\* exactly once, len(first candidates) + len(repair candidates) runs in all
C17_Termination ==
    /\ <>(pc \in {"done", "error"})
    /\ [](\A p \in DOMAIN trace :
            /\ trace[p].popens <= Len(trace[p].cands)
            /\ Len(trace[p].rc) <= Len(trace[p].cands))
    /\ [](pc = "done" =>
            /\ \A p \in DOMAIN trace :
                  /\ trace[p].popens = Len(trace[p].cands)
                  /\ Len(trace[p].rc) = Len(trace[p].cands)
            /\ Executions = Len(trace[1].cands)
                            + (IF prompts[2] = 1 THEN Len(trace[2].cands) ELSE 0))

\* a run has returned after three candidates in the first pass and one in
\* the repair pass, four runs in all
C17_Witness ==
    /\ pc = "done"
    /\ Len(trace) = 2
    /\ Len(trace[1].cands) = 3
    /\ Len(trace[2].cands) = 1
    /\ Executions = 4

----------------------------------------------------------------------------
(* filter_examples called again on what it accepted *)

\* the largest number of candidates given to a call of filter_examples here
MaxIdem == 2

\* the candidate texts: the sample bodies as parse_examples returns them
CandTexts == { strip(BodyOk), strip(BodyConst) }

\* a candidate prints and exits 0, or throws
FixedOutcomes ==
    { o \in NodeOutcomes : o.raw # <<>> /\ decodable(o.raw) /\ o.returncode \in {0, 1} }

\* the rules that make a candidate's outcome depend only on its text and on
\* the template files it finds
FixedOracles ==
    { [fixed |-> TRUE, of |-> f] : f \in [CandTexts \X BOOLEAN -> FixedOutcomes] }

\* a first call of filter_examples on some candidates, against an installed
\* template and a playground that does not exist yet
InitIdem ==
    /\ pc = "loop"
    /\ err = "none"
    /\ extract = FALSE /\ generate = FALSE /\ fix = FALSE /\ only_var = FALSE
    /\ readme = None
    /\ main = None
    /\ side_files = {}
    /\ template = InstalledTemplate
    /\ playground = EmptyDir
    /\ base = EmptyDir
    /\ examples = <<>>
    /\ failed_examples = <<>>
    /\ call = 1
    /\ cands \in SeqsUpTo(CandTexts, MaxIdem)
    /\ idx = 1
    /\ valid_examples = <<>>
    /\ invalid_examples = <<>>
    /\ process = NoProcess
    /\ save_i = 1
    /\ prompts = <<0, 0>>
    /\ installs = 1
    /\ trace = << [cands |-> cands, rc |-> <<>>, errout |-> <<>>,
                   resets |-> 0, writes |-> 0, popens |-> 0] >>
    /\ undeletable = {}
    /\ missing = {"playground"}
    /\ oracle \in FixedOracles
    /\ superuser \in BOOLEAN
    /\ sample = <<>>
    /\ parsed = <<>>

\* utils.py:199 and the caller: the first call's accepted list is kept; a
\* second call runs other candidates; a third call is given the kept list
IdemReturn ==
    /\ pc = "loop"
    /\ ~more_candidates(idx, cands)
    /\ \/ /\ call = 1
          /\ examples' = valid_examples
          /\ \E others \in SeqsUpTo(CandTexts, MaxIdem) : EnterFilter(2, others)
       \/ /\ call = 2
          /\ examples' = examples
          /\ EnterFilter(3, examples)
       \/ /\ call = 3
          /\ pc' = "returned"
          /\ UNCHANGED <<examples, call, cands, idx, valid_examples,
                         invalid_examples, trace>>
    /\ UNCHANGED <<err, extract, generate, fix, only_var, readme, main, side_files,
                   template, playground, base, failed_examples, process, save_i,
                   prompts, installs, undeletable, missing, oracle, superuser, sample, parsed>>

NextIdem ==
    \/ Reset
    \/ WriteEntry
    \/ StartNode
    \/ NodeExit
    \/ IdemReturn

SpecIdem == InitIdem /\ [][NextIdem]_vars

\* C14: when a candidate's outcome depends only on its text and the template,
\* filter_examples given the list an earlier call accepted returns that list
\* as accepted and nothing as rejected, whatever was run in between
C14_AcceptanceIdempotent ==
    (pc = "returned" /\ call = 3) =>
        /\ cands = examples
        /\ valid_examples = examples
        /\ invalid_examples = <<>>

----------------------------------------------------------------------------
(* the two places that read fenced blocks out of a text *)

\* the largest number of fenced blocks in a text read here
MaxDoc == 2

\* the fence tags a text may carry
DocTags == {"j", "js", "javascript", "bash"}

DocBlocks == { Block(t, b) : t \in DocTags, b \in {BodyOk, BodyConst} }

\* some text, a README or a response, about to be read
InitParse ==
    /\ pc = "parse"
    /\ err = "none"
    /\ extract = FALSE /\ generate = FALSE /\ fix = FALSE /\ only_var = FALSE
    /\ readme = None
    /\ main = None
    /\ side_files = {}
    /\ template = EmptyDir
    /\ playground = EmptyDir
    /\ base = EmptyDir
    /\ examples = <<>>
    /\ failed_examples = <<>>
    /\ call = 0
    /\ cands = <<>>
    /\ idx = 1
    /\ valid_examples = <<>>
    /\ invalid_examples = <<>>
    /\ process = NoProcess
    /\ save_i = 1
    /\ prompts = <<0, 0>>
    /\ installs = 0
    /\ trace = <<>>
    /\ undeletable = {}
    /\ missing = {}
    /\ oracle = AnyOutcome
    /\ superuser = FALSE
    /\ sample \in SeqsUpTo(DocBlocks, MaxDoc)
    /\ parsed = <<>>

\* generate.py:77-80 and utils.py:163-176 applied to the same text
ParseBoth ==
    /\ pc = "parse"
    /\ parsed' = << extract_examples(sample), parse_examples(sample) >>
    /\ pc' = "parsed"
    /\ UNCHANGED <<err, extract, generate, fix, only_var, readme, main, side_files,
                   template, playground, base, examples, failed_examples, call,
                   cands, idx, valid_examples, invalid_examples, process, save_i,
                   prompts, installs, trace, undeletable, missing, oracle, superuser,
                   sample>>

NextParse == ParseBoth

SpecParse == InitParse /\ [][NextParse]_vars

\* C16: README extraction and response parsing return the same examples from
\* the same text, since one fence parser recognises the same tags for both
C16_SharedFenceParser ==
    pc = "parsed" => parsed[1] = parsed[2]

====
